---------------------------- MODULE Spec2Model ----------------------------
(***************************************************************************)
(* Model of the hourly Open-Meteo ingestion function                       *)
(* (function_app.py, weather_ingestion_openmeteo): one batched upstream    *)
(* call for the 20 cities, normalisation of the hourly series into one     *)
(* table, export as CSV and upload to the container "weather-raw" under a  *)
(* key derived from the UTC clock.                                         *)
(*                                                                         *)
(* Times are seconds since the epoch (integers).  A float value of the     *)
(* provider is an integer token that identifies (location, variable,       *)
(* position).  A CSV payload is the sequence of its rows, a row the        *)
(* sequence of its fields.                                                 *)
(***************************************************************************)
EXTENDS Integers, Sequences, FiniteSets, TLC

(***************************************************************************)
(* Bounds of the model.                                                    *)
(***************************************************************************)
\* number of scheduler invocations (runs) that may be in flight together
NumRuns == 2
\* largest number of locations in an enumerated provider response
MaxLocs == 2
\* largest Time() / TimeEnd() of an enumerated hourly block
MaxEnd == 3
\* largest Interval() of an enumerated hourly block
MaxInterval == 2

(***************************************************************************)
(* Program constants.                                                      *)
(***************************************************************************)
\* retry(cache_session, retries=5, ...): retries after the first attempt
Retries == 5

CITIES ==
  << "Casablanca", "Rabat", "Marrakech", "Fès", "Tanger", "Meknès", "Agadir",
     "Safi", "Beni Mellal", "Nador", "Mohammedia", "Tétouan", "El Jadida",
     "Oujda", "Ouarzazate", "Essaouira", "Tiznit", "Al Hoceima", "Laâyoune",
     "Dakhla" >>

\* params["hourly"]: the variables in the order of the request
HOURLY ==
  << "temperature_2m", "relative_humidity_2m", "apparent_temperature",
     "precipitation", "rain", "snowfall", "snow_depth", "wind_speed_10m",
     "wind_direction_10m", "wind_gusts_10m", "is_day", "dew_point_2m",
     "pressure_msl", "surface_pressure", "cloud_cover", "cloud_cover_low",
     "cloud_cover_mid", "cloud_cover_high", "shortwave_radiation",
     "direct_radiation" >>

\* params["daily"]: requested, never read from the response
DAILY == << "sunrise", "sunset", "precipitation_hours" >>

\* the column names of df_h, in the order of the dict literal
COLUMNS ==
  << "datetime_utc",
     "temperature_2m", "relative_humidity_2m", "apparent_temperature",
     "precipitation", "rain", "snowfall", "snow_depth", "wind_speed_10m",
     "wind_direction_10m", "wind_gusts_10m", "is_day", "dew_point_2m",
     "pressure_msl", "surface_pressure", "cloud_cover", "cloud_cover_low",
     "cloud_cover_mid", "cloud_cover_high", "shortwave_radiation",
     "direct_radiation",
     "city" >>

Runs == 1..NumRuns

(***************************************************************************)
(* pd.concat(all_data, ignore_index=True): the rows of the frames in order *)
(***************************************************************************)
RECURSIVE Flatten(_)
Flatten(ss) == IF ss = << >> THEN << >> ELSE Head(ss) \o Flatten(Tail(ss))

(***************************************************************************)
(* Partition key: f"ingestion-v2/{now.year}/{now.month:02d}/{now.day:02d}  *)
(* /weather_{now.strftime('%H%M')}.csv".                                   *)
(***************************************************************************)
Digit(d) == << "0", "1", "2", "3", "4", "5", "6", "7", "8", "9" >>[d + 1]

\* str(n) of a non-negative integer: no padding ({now.year})
RECURSIVE Decimal(_)
Decimal(n) == IF n < 10 THEN Digit(n) ELSE Decimal(n \div 10) \o Digit(n % 10)

\* variant with a defect: a width of one, no zero padding
Pad2NoPad(n) == Decimal(n)

\* {n:02d} and strftime's %H, %M for 0 <= n: at least two digits
Pad2(n) == IF n < 10 THEN "0" \o Digit(n) ELSE Decimal(n)

BlobName(now) ==
  "ingestion-v2/" \o Decimal(now.year) \o "/" \o Pad2(now.month) \o "/"
    \o Pad2(now.day) \o "/weather_" \o Pad2(now.hour) \o Pad2(now.minute)
    \o ".csv"

(***************************************************************************)
(* Normalisation of one response (lines 67-106) and export (109-110).      *)
(***************************************************************************)
\* variant with a defect: inclusive="both", the end of the window is kept
DateRangeBoth(start, end, interval) ==
  IF end < start THEN << >>
  ELSE [k \in 1..((end - start) \div interval + 1) |-> start + (k - 1) * interval]

\* pd.date_range(start, end, freq=interval, inclusive="left"), interval > 0:
\* start, start + interval, ... as long as the value is before end; when end
\* is start the range is the one value start (only inclusive="neither" drops
\* it), when end is before start it is empty
DateRange(start, end, interval) ==
  IF end < start THEN << >>
  ELSE IF end = start THEN << start >>
  ELSE [k \in 1..((end - start + interval - 1) \div interval) |->
          start + (k - 1) * interval]

\* variant with a defect: columns cut to the shortest one instead of an error
MakeFrameTruncating(hourly, city_name) ==
  LET dates == DateRange(hourly.Time, hourly.TimeEnd, hourly.Interval)
      nvars == IF Len(hourly.Variables) < Len(HOURLY)
                 THEN Len(hourly.Variables) ELSE Len(HOURLY)
      lens  == {Len(dates)} \cup {Len(hourly.Variables[j]) : j \in 1..nvars}
      n     == CHOOSE m \in lens : \A x \in lens : m <= x
  IN  [ ok   |-> TRUE,
        err  |-> "",
        rows |-> [k \in 1..n |->
                    << dates[k] >>
                    \o [j \in 1..Len(HOURLY) |->
                          IF j <= nvars THEN hourly.Variables[j][k] ELSE 0]
                    \o << city_name >>] ]

\* df_h = pd.DataFrame({...}): hourly.Variables(j) of a variable the response
\* does not hold is None (AttributeError); columns of different lengths are a
\* ValueError; the scalar city is repeated on every row.  Every variable the
\* response holds carries its vector of values (ValuesAsNumpy is an array)
MakeFrame(hourly, city_name) ==
  LET dates == DateRange(hourly.Time, hourly.TimeEnd, hourly.Interval)
  IN  IF Len(hourly.Variables) < Len(HOURLY)
        THEN [ok |-> FALSE, err |-> "AttributeError", rows |-> << >>]
      ELSE IF \E j \in 1..Len(HOURLY) : Len(hourly.Variables[j]) # Len(dates)
        THEN [ok |-> FALSE, err |-> "ValueError", rows |-> << >>]
      ELSE [ ok   |-> TRUE,
             err  |-> "",
             rows |-> [k \in 1..Len(dates) |->
                         << dates[k] >>
                         \o [j \in 1..Len(HOURLY) |-> hourly.Variables[j][k]]
                         \o << city_name >>] ]

\* the loop of lines 67-106 from index i on: all_data so far, or the first error
RECURSIVE NormalizeFrom(_, _, _)
NormalizeFrom(responses, i, all_data) ==
  IF i > Len(responses)
    THEN [ok |-> TRUE, err |-> "", all_data |-> all_data]
  ELSE IF i > Len(CITIES)
    THEN [ok |-> FALSE, err |-> "IndexError", all_data |-> all_data]
  ELSE LET df_h == MakeFrame(responses[i], CITIES[i])
       IN  IF df_h.ok
             THEN NormalizeFrom(responses, i + 1, Append(all_data, df_h.rows))
             ELSE [ok |-> FALSE, err |-> df_h.err, all_data |-> all_data]

\* variant with a defect: header=False
ToCsvNoHeader(final_df) == final_df

\* final_df.to_csv(index=False): the header row, then one row per record
ToCsv(final_df) == << COLUMNS >> \o final_df

\* lines 65-110: pd.concat of an empty list is a ValueError
Normalize(responses) ==
  LET loop == NormalizeFrom(responses, 1, << >>)
  IN  IF ~loop.ok
        THEN [ok |-> FALSE, err |-> loop.err, all_data |-> loop.all_data,
              csv_data |-> << >>]
      ELSE IF loop.all_data = << >>
        THEN [ok |-> FALSE, err |-> "ValueError", all_data |-> << >>,
              csv_data |-> << >>]
      ELSE [ok |-> TRUE, err |-> "", all_data |-> loop.all_data,
            csv_data |-> ToCsv(Flatten(loop.all_data))]

(***************************************************************************)
(* The provider's responses.  The response of a location holds Time(),     *)
(* TimeEnd(), Interval() and the value arrays of its variables; the value  *)
(* at position k of variable j of location i is the token Val(i, j, k).    *)
(***************************************************************************)
\* longest value array of an enumerated hourly block
MaxLen == 2

Val(i, j, k) == i * 10000 + j * 100 + k

\* a block whose arrays all have m values, but for variable dev.var, which
\* has m + dev.delta, and which holds the first dev.nvars variables only
Hourly(i, time, timeEnd, interval, m, dev) ==
  [ Time      |-> time,
    TimeEnd   |-> timeEnd,
    Interval  |-> interval,
    Variables |-> [j \in 1..dev.nvars |->
                     [k \in 1..(IF j = dev.var THEN m + dev.delta ELSE m) |->
                        Val(i, j, k)]] ]

Exact == [var |-> 0, delta |-> 0, nvars |-> Len(HOURLY)]

\* well formed; the last variable missing; the first variable one value
\* short; the last variable one value long
Deviations ==
  { Exact,
    [var |-> 0, delta |-> 0, nvars |-> Len(HOURLY) - 1],
    [var |-> 1, delta |-> -1, nvars |-> Len(HOURLY)],
    [var |-> Len(HOURLY), delta |-> 1, nvars |-> Len(HOURLY)] }

Blocks(i) ==
  {Hourly(i, t, e, iv, m, dev) :
     t \in 0..1, e \in 0..MaxEnd, iv \in 1..MaxInterval, m \in 0..MaxLen,
     dev \in Deviations}

\* two samples, one interval apart, every array of length two
DefaultBlock(i) == Hourly(i, 0, 2, 1, 2, Exact)

\* one day of 24 hourly samples for each of the 20 cities
FullDay == [i \in 1..Len(CITIES) |-> Hourly(i, 0, 86400, 3600, 24, Exact)]

\* one location more than the registry holds
TooMany == [i \in 1..(Len(CITIES) + 1) |-> DefaultBlock(i)]

\* one location: one sample; two samples; two timestamps but one value
RespA == << Hourly(1, 0, 1, 1, 1, Exact) >>
RespB == << DefaultBlock(1) >>
RespBad == << Hourly(1, 0, 2, 1, 1, Exact) >>

\* what the provider answers when several runs are in flight
SmallResponses == {RespA, RespB, RespBad}

\* what the provider answers to a single run: the empty list, every list of
\* up to MaxLocs locations of which one is any enumerated block and the
\* others the default block, and the two large responses
AllResponses ==
  {<< >>, FullDay, TooMany} \cup SmallResponses
    \cup UNION {UNION {{[i \in 1..n |-> IF i = p THEN b ELSE DefaultBlock(i)] :
                          b \in Blocks(p)} : p \in 1..n} : n \in 1..MaxLocs}

(***************************************************************************)
(* The clock: datetime.utcnow() at minute resolution.  The clock moves     *)
(* through Times.                                                          *)
(***************************************************************************)
Times ==
  << [year |-> 2024, month |-> 3,  day |-> 1, hour |-> 14, minute |-> 0],
     [year |-> 2024, month |-> 11, day |-> 9, hour |-> 7,  minute |-> 5] >>

NoTime == [year |-> 0, month |-> 0, day |-> 0, hour |-> 0, minute |-> 0]

(***************************************************************************)
(* os.environ: the value of AzureWebJobsStorage, if it is set.             *)
(***************************************************************************)
GoodConnectionString ==
  "DefaultEndpointsProtocol=https;AccountName=a;AccountKey=k"

Environs == {<< >>, << "malformed" >>, << GoodConnectionString >>}

\* an object the container held before the first run
OldCsv == << COLUMNS >>

(***************************************************************************)
(* State.                                                                  *)
(***************************************************************************)
VARIABLES
  runs,     \* per invocation: position and locals of weather_ingestion_openmeteo
  clock,    \* index into Times of the current UTC minute
  sink,     \* container "weather-raw": blob name -> the objects held under it
  cache,    \* requests_cache session: << >> or << the cached response >>
  environ,  \* os.environ: << >> or << AzureWebJobsStorage >>
  percall   \* the run of the per-call pipeline (one request per location)

vars == << runs, clock, sink, cache, environ, percall >>

NewRun ==
  [ pc         |-> "idle",       \* idle, fetch, request, normalize, connect,
                                 \* upload, uploading, uploaded, done
    attempts   |-> 0,            \* failed HTTP attempts of the weather_api call
    requested  |-> FALSE,        \* an HTTP request left for the provider
    responses  |-> << >>,
    all_data   |-> << >>,
    csv_data   |-> << >>,
    now        |-> NoTime,
    blob_name  |-> "",
    uploads    |-> 0,            \* calls of upload_blob
    wrote      |-> << >>,        \* blob names this run created or overwrote
    err        |-> "",           \* the exception raised inside the try block
    log        |-> << >>,        \* logging.info / logging.error calls
    raised     |-> FALSE ]       \* an exception left the function

EmptySink == [k \in {} |-> << >>]

TypeOK ==
  /\ clock \in 1..Len(Times)
  /\ environ \in Environs
  /\ Len(cache) <= 1
  /\ \A r \in Runs :
       runs[r].pc \in {"idle", "fetch", "request", "normalize", "connect",
                       "upload", "uploading", "uploaded", "done"}

(***************************************************************************)
(* The steps of weather_ingestion_openmeteo.                               *)
(***************************************************************************)
Info(msg, lines) == [level |-> "info", msg |-> msg, lines |-> lines]
Error(msg) == [level |-> "error", msg |-> msg, lines |-> 0]

\* variant with a defect: the handler logs and raises again
ExceptReraise(run, step, e) ==
  [run EXCEPT !.pc = "done", !.err = step, !.log = Append(@, Error(e)),
              !.raised = TRUE]

\* except Exception as e: logging.error(...): the run ends here, the
\* function returns None.  step is the statement of the try block that
\* raised, e the exception's text
Except(run, step, e) ==
  [run EXCEPT !.pc = "done", !.err = step, !.log = Append(@, Error(e))]

\* the timer fires: logging.info at line 45, then the try block is entered
Trigger(r) ==
  /\ runs[r].pc = "idle"
  /\ runs' = [runs EXCEPT ![r].pc = "fetch",
                          ![r].log = Append(@, Info("start", 0))]
  /\ UNCHANGED << clock, sink, cache, environ, percall >>

\* line 64, the cached session holds the response: no HTTP request is sent
FetchCached(r) ==
  /\ runs[r].pc = "fetch"
  /\ cache # << >>
  /\ runs' = [runs EXCEPT ![r].pc = "normalize", ![r].responses = cache[1]]
  /\ UNCHANGED << clock, sink, cache, environ, percall >>

\* line 64, the cached session holds nothing: the HTTP request leaves and the
\* run waits for the provider
FetchSend(r) ==
  /\ runs[r].pc = "fetch"
  /\ cache = << >>
  /\ runs' = [runs EXCEPT ![r].pc = "request", ![r].requested = TRUE]
  /\ UNCHANGED << clock, sink, cache, environ, percall >>

\* the provider answers the request in flight with resp: the session stores
\* the response, whatever it holds by now, and weather_api returns it
FetchOk(r, resp) ==
  /\ runs[r].pc = "request"
  /\ runs' = [runs EXCEPT ![r].pc = "normalize", ![r].responses = resp,
                          ![r].attempts = 0]
  /\ cache' = << resp >>
  /\ UNCHANGED << clock, sink, environ, percall >>

\* variant with a defect: stale_if_error, a failed call falls back to an old response
FetchFailStale(r, fatal) ==
  /\ runs[r].pc = "request"
  /\ LET run == [runs[r] EXCEPT !.attempts = @ + 1]
     IN  runs' = [runs EXCEPT ![r] =
                    IF fatal \/ run.attempts > Retries
                      THEN [run EXCEPT !.pc = "normalize", !.err = "fetch",
                                       !.responses = RespA]
                      ELSE run]
  /\ UNCHANGED << clock, sink, cache, environ, percall >>

\* the attempt in flight fails: the request is sent again (retry_session,
\* retries=5) unless the failure is not a retryable one (fatal) or the
\* retries are used up; then weather_api raises
FetchFail(r, fatal) ==
  /\ runs[r].pc = "request"
  /\ LET run == [runs[r] EXCEPT !.attempts = @ + 1]
     IN  runs' = [runs EXCEPT ![r] =
                    IF fatal \/ run.attempts > Retries
                      THEN Except(run, "fetch", "FetchError")
                      ELSE run]
  /\ UNCHANGED << clock, sink, cache, environ, percall >>

\* lines 65-110: the loop over the responses, pd.concat, to_csv
DoNormalize(r) ==
  /\ runs[r].pc = "normalize"
  /\ LET res == Normalize(runs[r].responses)
         run == [runs[r] EXCEPT !.all_data = res.all_data,
                                !.csv_data = res.csv_data]
     IN  runs' = [runs EXCEPT ![r] =
                    IF res.ok THEN [run EXCEPT !.pc = "connect"]
                    ELSE Except(run, "normalize", res.err)]
  /\ UNCHANGED << clock, sink, cache, environ, percall >>

\* BlobServiceClient.from_connection_string accepts the string
ValidConnectionString(s) == s = GoodConnectionString

\* lines 113-114: os.environ["AzureWebJobsStorage"] (KeyError when unset) and
\* BlobServiceClient.from_connection_string (ValueError when malformed)
Connect(r) ==
  /\ runs[r].pc = "connect"
  /\ runs' = [runs EXCEPT ![r] =
                IF environ = << >> THEN Except(@, "environ", "KeyError")
                ELSE IF ~ValidConnectionString(environ[1])
                  THEN Except(@, "client", "ValueError")
                ELSE [@ EXCEPT !.pc = "upload"]]
  /\ UNCHANGED << clock, sink, cache, environ, percall >>

\* variant with a defect: the object is added beside the ones already under the name
UploadBlobAppend(container, blob, data) ==
  [k \in DOMAIN container \cup {blob} |->
     IF k = blob
       THEN (IF blob \in DOMAIN container THEN container[blob] ELSE << >>)
              \o << data >>
       ELSE container[k]]

\* the storage service applies upload_blob(data, overwrite=True): the
\* container holds data, and nothing else, under the name.  A payload of this
\* size is sent in one request, which the service applies as a whole or not
\* at all
UploadBlob(container, blob, data) ==
  [k \in DOMAIN container \cup {blob} |->
     IF k = blob THEN << data >> ELSE container[k]]

\* lines 116-120: utcnow, the blob name, the blob client; upload_blob is
\* called and the request leaves with the name built from the minute read here
StartUpload(r) ==
  /\ runs[r].pc = "upload"
  /\ LET now == Times[clock]
     IN  runs' = [runs EXCEPT ![r].pc = "uploading", ![r].now = now,
                             ![r].blob_name = BlobName(now),
                             ![r].uploads = @ + 1]
  /\ UNCHANGED << clock, sink, cache, environ, percall >>

\* line 120, at the storage service: the request in flight is applied
UploadApply(r) ==
  /\ runs[r].pc = "uploading"
  /\ sink' = UploadBlob(sink, runs[r].blob_name, runs[r].csv_data)
  /\ runs' = [runs EXCEPT ![r].pc = "uploaded",
                          ![r].wrote = Append(@, runs[r].blob_name)]
  /\ UNCHANGED << clock, cache, environ, percall >>

\* lines 120-122: the answer of the service arrives, upload_blob returns and
\* the success line is logged
UploadReturn(r) ==
  /\ runs[r].pc = "uploaded"
  /\ runs' = [runs EXCEPT ![r].pc = "done",
                          ![r].log = Append(@, Info(runs[r].blob_name,
                                                   Len(runs[r].csv_data) - 1))]
  /\ UNCHANGED << clock, sink, cache, environ, percall >>

\* line 120 raises: the request was refused or never arrived (uploading), or
\* it was applied and its answer was lost (uploaded).  The container is left
\* as the service has it
UploadFail(r) ==
  /\ runs[r].pc \in {"uploading", "uploaded"}
  /\ runs' = [runs EXCEPT ![r] = Except(@, "upload", "HttpResponseError")]
  /\ UNCHANGED << clock, sink, cache, environ, percall >>


\* a minute passes
Tick ==
  /\ clock < Len(Times)
  /\ clock' = clock + 1
  /\ UNCHANGED << runs, sink, cache, environ, percall >>

\* expire_after=3600: the cached response expires
CacheExpire ==
  /\ cache # << >>
  /\ cache' = << >>
  /\ UNCHANGED << runs, clock, sink, environ, percall >>

\* the statements run r executes by itself, up to the call it then waits in
LocalStep(r) ==
  \/ FetchCached(r)
  \/ FetchSend(r)
  \/ DoNormalize(r)
  \/ Connect(r)
  \/ StartUpload(r)

\* the end of an HTTP attempt of line 64, the provider answering from
\* Provider.  weather_api is called without a timeout and neither session
\* sets one: nothing in the function makes this step happen
ProviderStep(r, Provider) ==
  \/ \E resp \in Provider : FetchOk(r, resp)
  \/ \E fatal \in BOOLEAN : FetchFail(r, fatal)

\* the progress of upload_blob at line 120; the storage client's transport
\* has connection and read timeouts, the call returns or raises
StorageStep(r) ==
  \/ UploadApply(r)
  \/ UploadReturn(r)
  \/ UploadFail(r)

\* the steps of run r after its trigger
RunStep(r, Provider) ==
  \/ LocalStep(r)
  \/ ProviderStep(r, Provider)
  \/ StorageStep(r)

\* how the run ended, read from its last log line
Outcome(run) ==
  IF run.pc # "done" THEN ""
  ELSE IF run.log[Len(run.log)].level = "error" THEN "TOTAL_FAILURE"
  ELSE "SUCCESS"

\* the phase of the run's state machine
Phase(run) ==
  CASE run.pc = "idle"      -> "START"
    [] run.pc \in {"fetch", "request"} -> "FETCHING"
    [] run.pc = "normalize" -> "NORMALIZING"
    [] run.pc \in {"connect", "upload", "uploading", "uploaded"} -> "WRITING"
    [] OTHER                -> Outcome(run)

(***************************************************************************)
(* The per-call pipeline: one request and one JSON artifact per location.  *)
(* Its code is not among the sources; it is modelled from the design       *)
(* document (sections 4.1, 4.3, 4.5, 7 and 8).                             *)
(***************************************************************************)
\* the locations of the per-call run, in iteration order
PerCallLocations ==
  << "Casablanca", "Rabat", "Marrakech", "Fès", "Tanger", "Meknès" >>

\* api-ingestion/{label}/{year}/{month:02}/{day:02}/{hour:02}-{minute:02}_data.json
PerCallKey(now, label) ==
  "api-ingestion/" \o label \o "/" \o Decimal(now.year) \o "/"
    \o Pad2(now.month) \o "/" \o Pad2(now.day) \o "/" \o Pad2(now.hour)
    \o "-" \o Pad2(now.minute) \o "_data.json"

NewPerCall ==
  [ pc        |-> "idle",    \* idle, loop, done
    i         |-> 1,         \* index of the next location
    fetched   |-> {},        \* locations a request was sent for
    artifacts |-> {},        \* locations whose artifact was written
    failed    |-> {},        \* locations whose fetch or write failed
    log       |-> << >>,
    outcome   |-> "" ]

\* the secret "OpenWeatherApiKey" is resolved before any fetch; a failure is
\* fatal to the run
PerCallStart(secretOk) ==
  /\ percall.pc = "idle"
  /\ percall' = IF secretOk
                  THEN [percall EXCEPT !.pc = "loop"]
                  ELSE [percall EXCEPT !.pc = "done",
                                       !.log = Append(@, Error("SecretResolutionError")),
                                       !.outcome = "TOTAL_FAILURE"]
  /\ UNCHANGED << runs, clock, sink, cache, environ >>

\* variant with a defect: the first failure ends the loop
PerCallLocationAbort(fetchOk, writeOk) ==
  /\ percall.pc = "loop"
  /\ percall.i <= Len(PerCallLocations)
  /\ LET label == PerCallLocations[percall.i]
         key == PerCallKey(Times[clock], label)
     IN  IF fetchOk /\ writeOk
           THEN /\ sink' = UploadBlob(sink, key, << label >>)
                /\ percall' = [percall EXCEPT !.i = @ + 1,
                                 !.fetched = @ \cup {label},
                                 !.artifacts = @ \cup {label}]
           ELSE /\ sink' = sink
                /\ percall' = [percall EXCEPT !.i = Len(PerCallLocations) + 1,
                                 !.fetched = @ \cup {label},
                                 !.failed = @ \cup {label},
                                 !.log = Append(@, Error(IF fetchOk THEN "SinkError"
                                                         ELSE "FetchError"))]
  /\ UNCHANGED << runs, clock, cache, environ >>

\* one location: fetch, then write the raw JSON under the location's key; a
\* failure of either is logged and the loop goes on with the next location
PerCallLocation(fetchOk, writeOk) ==
  /\ percall.pc = "loop"
  /\ percall.i <= Len(PerCallLocations)
  /\ LET label == PerCallLocations[percall.i]
         key == PerCallKey(Times[clock], label)
     IN  IF fetchOk /\ writeOk
           THEN /\ sink' = UploadBlob(sink, key, << label >>)
                /\ percall' = [percall EXCEPT !.i = @ + 1,
                                 !.fetched = @ \cup {label},
                                 !.artifacts = @ \cup {label}]
           ELSE /\ sink' = sink
                /\ percall' = [percall EXCEPT !.i = @ + 1,
                                 !.fetched = @ \cup {label},
                                 !.failed = @ \cup {label},
                                 !.log = Append(@, Error(IF fetchOk THEN "SinkError"
                                                         ELSE "FetchError"))]
  /\ UNCHANGED << runs, clock, cache, environ >>

\* the end of the loop: the run-level outcome
PerCallFinish ==
  /\ percall.pc = "loop"
  /\ percall.i > Len(PerCallLocations)
  /\ percall' = [percall EXCEPT !.pc = "done",
                   !.outcome = IF percall.failed = {} THEN "SUCCESS"
                               ELSE IF percall.artifacts = {} THEN "TOTAL_FAILURE"
                               ELSE "PARTIAL_FAILURE"]
  /\ UNCHANGED << runs, clock, sink, cache, environ >>

(***************************************************************************)
(* Specifications.                                                         *)
(***************************************************************************)
\* several runs, sequential or overlapping, the container empty at first
Init ==
  /\ runs = [r \in Runs |-> NewRun]
  /\ clock = 1
  /\ sink = EmptySink
  /\ cache = << >>
  /\ environ \in Environs
  /\ percall = NewPerCall

Next ==
  \/ \E r \in Runs : Trigger(r)
  \/ \E r \in Runs : RunStep(r, SmallResponses)
  \/ Tick
  \/ CacheExpire

Spec == Init /\ [][Next]_vars

\* one run, whatever the cache holds when it starts and whenever the cached
\* response expires.  A triggered run executes its own statements and its
\* upload_blob call returns or raises; the answer of the weather provider is
\* not under any fairness, the request of line 64 has no timeout
FairInit ==
  /\ runs = [r \in Runs |-> NewRun]
  /\ clock = 1
  /\ sink = EmptySink
  /\ cache \in {<< >>, << RespA >>, << RespBad >>}
  /\ environ \in Environs
  /\ percall = NewPerCall

FairNext ==
  \/ Trigger(1)
  \/ RunStep(1, SmallResponses)
  \/ Tick
  \/ CacheExpire

FairSpec ==
  /\ FairInit /\ [][FairNext]_vars
  /\ WF_vars(LocalStep(1))
  /\ WF_vars(StorageStep(1))

\* what the container may hold before a single run
InitialSinks == {EmptySink, UploadBlob(EmptySink, BlobName(Times[1]), OldCsv)}

\* one run on any enumerated response; the container may hold an object and
\* the cache a response of an earlier run
SingleInit ==
  /\ runs = [r \in Runs |-> NewRun]
  /\ clock = 1
  /\ sink \in InitialSinks
  /\ cache \in {<< >>, << RespA >>}
  /\ environ = << GoodConnectionString >>
  /\ percall = NewPerCall

SingleNext ==
  \/ Trigger(1)
  \/ RunStep(1, AllResponses)
  \/ Tick
  \/ CacheExpire

SingleSpec == SingleInit /\ [][SingleNext]_vars

\* one run of the per-call pipeline
PerCallInit ==
  /\ runs = [r \in Runs |-> NewRun]
  /\ clock \in 1..Len(Times)
  /\ sink = EmptySink
  /\ cache = << >>
  /\ environ = << GoodConnectionString >>
  /\ percall = NewPerCall

PerCallNext ==
  \/ \E secretOk \in BOOLEAN : PerCallStart(secretOk)
  \/ \E fetchOk, writeOk \in BOOLEAN : PerCallLocation(fetchOk, writeOk)
  \/ PerCallFinish

PerCallSpec == PerCallInit /\ [][PerCallNext]_vars

(***************************************************************************)
(* Properties.                                                             *)
(***************************************************************************)
Range(f) == {f[x] : x \in DOMAIN f}

ErrorLines(log) == {n \in 1..Len(log) : log[n].level = "error"}

\* number of timestamps of the window in steps of Interval, counted without
\* building the range: those of the half-open [Time, TimeEnd), or the one
\* timestamp Time of the window whose end is its start
WindowCount(h) ==
  IF h.TimeEnd < h.Time THEN 0
  ELSE IF h.TimeEnd = h.Time THEN 1
  ELSE CHOOSE n \in 1..(h.TimeEnd - h.Time) :
         /\ h.Time + (n - 1) * h.Interval < h.TimeEnd
         /\ h.Time + n * h.Interval >= h.TimeEnd

\* C1: a run whose weather_api call fails (retries used up, or a failure
\* that is not retried) ends in TOTAL_FAILURE without a call of upload_blob
\* and without having created or overwritten an object; and a step of a run
\* that records no write leaves the container as it was.
C1_FetchFailureWritesNothing ==
  /\ [](\A r \in Runs :
          runs[r].err = "fetch" =>
            /\ runs[r].pc = "done"
            /\ Outcome(runs[r]) = "TOTAL_FAILURE"
            /\ runs[r].uploads = 0
            /\ runs[r].wrote = << >>)
  /\ [][\A r \in Runs :
          (runs'[r] # runs[r] /\ runs'[r].wrote = runs[r].wrote)
            => sink' = sink]_vars

\* a run ended by a failed fetch after all its retries, while the other run
\* has written an object
C1_Witness ==
  \E r, q \in Runs :
    /\ runs[r].err = "fetch" /\ runs[r].attempts = Retries + 1
    /\ runs[r].pc = "done"
    /\ runs[q].wrote # << >> /\ DOMAIN sink # {}

\* C2: no exception leaves the function: whatever statement of the try block
\* raises (fetch, normalisation, os.environ, the storage client, the upload),
\* the run ends there, with exactly one error log line, its last one.
C2_NoErrorReachesScheduler ==
  \A r \in Runs :
    /\ ~runs[r].raised
    /\ runs[r].err # "" =>
         /\ runs[r].pc = "done"
         /\ Cardinality(ErrorLines(runs[r].log)) = 1
         /\ runs[r].log[Len(runs[r].log)].level = "error"
    /\ runs[r].err = "" => ErrorLines(runs[r].log) = {}

\* one run ended by a failed upload, another by a failed normalisation
C2_Witness ==
  \E r, q \in Runs :
    /\ runs[r].pc = "done" /\ runs[r].err = "upload"
    /\ runs[q].pc = "done" /\ runs[q].err = "normalize"

\* C3: under every blob name the container holds exactly one object, and it
\* is the complete CSV payload of one of the runs that uploaded to that name;
\* every name a run uploaded to is held.
C3_OverwriteNotDuplicate ==
  /\ \A k \in DOMAIN sink :
       /\ Len(sink[k]) = 1
       /\ \E r \in Runs :
            /\ k \in Range(runs[r].wrote)
            /\ sink[k][1] = runs[r].csv_data
            /\ runs[r].csv_data = << COLUMNS >> \o Flatten(runs[r].all_data)
  /\ \A r \in Runs : Range(runs[r].wrote) \subseteq DOMAIN sink

\* two runs have uploaded different payloads to the same name
C3_Witness ==
  \E r, q \in Runs :
    /\ r # q
    /\ runs[r].wrote # << >> /\ runs[r].wrote = runs[q].wrote
    /\ runs[r].csv_data # runs[q].csv_data
    /\ sink[runs[r].blob_name] = << runs[q].csv_data >>

\* the names of the claim's scheme for the minutes of Times, written out
ExpectedKeys ==
  << "ingestion-v2/2024/03/01/weather_1400.csv",
     "ingestion-v2/2024/11/09/weather_0705.csv" >>

\* C4: the blob name is a function of the UTC minute read at line 116,
\* ingestion-v2/Y/MM/DD/weather_hhmm.csv with two-digit month, day, hour and
\* minute: runs with the same minute have the same name, and the run at
\* 2024-03-01 14:00 writes ingestion-v2/2024/03/01/weather_1400.csv.
C4_KeyOfRunTimestamp ==
  /\ \A r \in Runs :
       runs[r].uploads > 0 =>
         /\ \E t \in 1..Len(Times) :
              runs[r].now = Times[t] /\ runs[r].blob_name = ExpectedKeys[t]
         /\ Range(runs[r].wrote) \subseteq {runs[r].blob_name}
  /\ \A r, q \in Runs :
       (runs[r].uploads > 0 /\ runs[q].uploads > 0 /\ runs[r].now = runs[q].now)
         => runs[r].blob_name = runs[q].blob_name

\* a run at 2024-03-01 14:00 and a run at 2024-11-09 07:05 have written
C4_Witness ==
  \E r, q \in Runs :
    /\ runs[r].now = Times[1]
    /\ runs[r].wrote = << "ingestion-v2/2024/03/01/weather_1400.csv" >>
    /\ runs[q].now = Times[2]
    /\ runs[q].wrote = << "ingestion-v2/2024/11/09/weather_0705.csv" >>

\* the run's responses went through lines 67-110 without an exception
Normalized(run) == run.csv_data # << >>

\* record k of location i of the run: the timestamp of the window, the 20
\* values of position k in request order, the i-th city
RecordOk(run, i, k) ==
  LET h == run.responses[i]
      rec == run.all_data[i][k]
  IN  /\ Len(rec) = Len(HOURLY) + 2
      /\ rec[1] = h.Time + (k - 1) * h.Interval
      /\ h.Time <= rec[1] /\ rec[1] <= h.TimeEnd
      /\ h.TimeEnd # h.Time => rec[1] < h.TimeEnd
      /\ \A j \in 1..Len(HOURLY) :
           rec[j + 1] = h.Variables[j][k] /\ rec[j + 1] = Val(i, j, k)
      /\ rec[Len(HOURLY) + 2] = CITIES[i]

\* C5 as stated: location i yields exactly (end_i - start_i) / interval_i
\* records, record k at start_i + k * interval_i, with the 20 variables in
\* request order and the name of the i-th city.
C5_AsStated ==
  \A r \in Runs :
    Normalized(runs[r]) =>
      /\ Len(runs[r].all_data) = Len(runs[r].responses)
      /\ \A i \in 1..Len(runs[r].responses) :
           LET h == runs[r].responses[i]
           IN  /\ Len(runs[r].all_data[i]) * h.Interval = h.TimeEnd - h.Time
               /\ \A k \in 1..Len(runs[r].all_data[i]) : RecordOk(runs[r], i, k)

\* C5, amended: location i yields one record per timestamp of its window,
\* that is (end_i - start_i) / interval_i rounded up when end_i > start_i,
\* one record when end_i = start_i and none when end_i < start_i; record k is
\* at start_i + k * interval_i, before end_i unless end_i = start_i, with the
\* 20 variables in request order and the name of the i-th city.
C5_RecordsOfWindow ==
  \A r \in Runs :
    Normalized(runs[r]) =>
      /\ Len(runs[r].all_data) = Len(runs[r].responses)
      /\ \A i \in 1..Len(runs[r].responses) :
           LET h == runs[r].responses[i]
           IN  /\ Len(runs[r].all_data[i]) = WindowCount(h)
               /\ (h.TimeEnd > h.Time /\ (h.TimeEnd - h.Time) % h.Interval = 0)
                    => Len(runs[r].all_data[i]) * h.Interval = h.TimeEnd - h.Time
               /\ h.TimeEnd = h.Time => Len(runs[r].all_data[i]) = 1
               /\ \A k \in 1..Len(runs[r].all_data[i]) : RecordOk(runs[r], i, k)

\* two locations normalised, one over a window its interval does not divide
C5_Witness ==
  /\ Normalized(runs[1])
  /\ Len(runs[1].responses) = 2
  /\ \E i \in 1..2 :
       /\ (runs[1].responses[i].TimeEnd - runs[1].responses[i].Time)
            % runs[1].responses[i].Interval # 0
       /\ Len(runs[1].all_data[i]) = 2
  /\ \E i \in 1..2 :
       /\ runs[1].responses[i].Interval = 1
       /\ Len(runs[1].all_data[i]) = 2

\* some location of the response has a variable array whose length is not
\* the number of timestamps of its window
Malformed(responses) ==
  \E i \in 1..Len(responses) :
    \E j \in 1..Len(HOURLY) :
      /\ j <= Len(responses[i].Variables)
      /\ Len(responses[i].Variables[j]) # WindowCount(responses[i])

\* C6: a response in which some variable array of some location has a length
\* other than the location's timestamp count never gets past normalisation:
\* the run ends there in TOTAL_FAILURE, no CSV is built, upload_blob is not
\* called and the container stays as it was.
C6_LengthMismatchIsFatal ==
  \A r \in Runs :
    (runs[r].pc \notin {"idle", "fetch", "request"}
       /\ Malformed(runs[r].responses)) =>
      /\ runs[r].pc \in {"normalize", "done"}
      /\ runs[r].csv_data = << >>
      /\ runs[r].uploads = 0 /\ runs[r].wrote = << >>
      /\ sink \in InitialSinks
      /\ runs[r].pc = "done" =>
           /\ runs[r].err = "normalize"
           /\ Outcome(runs[r]) = "TOTAL_FAILURE"

\* a run ended by a response whose first location is well formed and whose
\* second has arrays one value short
C6_Witness ==
  /\ runs[1].pc = "done" /\ runs[1].err = "normalize"
  /\ Len(runs[1].responses) = 2
  /\ ~Malformed(<< runs[1].responses[1] >>)
  /\ WindowCount(runs[1].responses[1]) = 2
  /\ Len(runs[1].responses[2].Variables[1]) = WindowCount(runs[1].responses[2]) - 1

RECURSIVE CountsBefore(_, _)
CountsBefore(responses, i) ==
  IF i <= 1 THEN 0
  ELSE CountsBefore(responses, i - 1) + WindowCount(responses[i - 1])

\* C7: a run that ends in SUCCESS has called upload_blob once and written one
\* object; the object is the header row (datetime_utc, the 20 hourly
\* variables in request order, city) followed by the records of the
\* locations in registry order, one row each (480 rows after the header for
\* 20 locations of 24 timestamps); no daily field is a column or a value.
C7_OneCsvArtifact ==
  \A r \in Runs :
    Outcome(runs[r]) = "SUCCESS" =>
      LET run == runs[r]
          csv == sink[run.blob_name][1]
      IN  /\ run.uploads = 1 /\ run.wrote = << run.blob_name >>
          /\ Len(sink[run.blob_name]) = 1
          /\ Len(csv) = 1 + CountsBefore(run.responses, Len(run.responses) + 1)
          /\ csv[1] = << "datetime_utc" >> \o HOURLY \o << "city" >>
          /\ run.log[Len(run.log)] = Info(run.blob_name, Len(csv) - 1)
          /\ \A i \in 1..Len(run.responses) :
               \A k \in 1..WindowCount(run.responses[i]) :
                 LET row == csv[1 + CountsBefore(run.responses, i) + k]
                 IN  /\ Len(row) = Len(HOURLY) + 2
                     /\ row[1] = run.responses[i].Time
                                   + (k - 1) * run.responses[i].Interval
                     /\ \A j \in 1..Len(HOURLY) : row[j + 1] = Val(i, j, k)
                     /\ row[Len(HOURLY) + 2] = CITIES[i]
          /\ Range(csv[1]) \cap Range(DAILY) = {}
          /\ \A n \in 1..Len(csv) : Len(csv[n]) = Len(HOURLY) + 2
          /\ run.responses = FullDay => Len(csv) = 481

\* the run on 20 locations of 24 timestamps has written 480 rows and a header
C7_Witness ==
  /\ Outcome(runs[1]) = "SUCCESS"
  /\ runs[1].responses = FullDay
  /\ runs[1].blob_name = "ingestion-v2/2024/03/01/weather_1400.csv"
  /\ Len(sink[runs[1].blob_name][1]) = 481

\* C8 as stated: a run in which reading AzureWebJobsStorage or building the
\* storage client fails ends in TOTAL_FAILURE without having sent a request
\* to the weather provider.
C8_CredentialErrorBeforeFetch ==
  \A r \in Runs :
    runs[r].err \in {"environ", "client"} =>
      /\ Outcome(runs[r]) = "TOTAL_FAILURE"
      /\ ~runs[r].requested

\* C9: in a finished per-call run in which some location failed, every
\* location was fetched, every location that did not fail has its artifact
\* in the container, one error is logged per failed location, and the
\* outcome is PARTIAL_FAILURE when some artifact was written.
C9_PerCallFailureIsolation ==
  /\ percall.pc = "loop" =>
       percall.fetched = {PerCallLocations[n] : n \in 1..(percall.i - 1)}
  /\ (percall.pc = "done" /\ percall.failed # {}) =>
       /\ percall.fetched = Range(PerCallLocations)
       /\ percall.artifacts = Range(PerCallLocations) \ percall.failed
       /\ \A l \in percall.artifacts :
            /\ PerCallKey(Times[clock], l) \in DOMAIN sink
            /\ sink[PerCallKey(Times[clock], l)] = << << l >> >>
       /\ Cardinality(DOMAIN sink) = Cardinality(percall.artifacts)
       /\ Cardinality(ErrorLines(percall.log)) = Cardinality(percall.failed)
       /\ percall.artifacts # {} => percall.outcome = "PARTIAL_FAILURE"

\* six locations, the fetch of Tanger failed: five artifacts, one FetchError
C9_Witness ==
  /\ percall.pc = "done"
  /\ percall.failed = {"Tanger"}
  /\ percall.log = << Error("FetchError") >>
  /\ Cardinality(DOMAIN sink) = 5
  /\ "api-ingestion/Rabat/2024/03/01/14-00_data.json" \in DOMAIN sink
  /\ "api-ingestion/Meknès/2024/03/01/14-00_data.json" \in DOMAIN sink
  /\ percall.outcome = "PARTIAL_FAILURE"

PhaseRank(phase) ==
  CASE phase = "START"       -> 0
    [] phase = "FETCHING"    -> 1
    [] phase = "NORMALIZING" -> 2
    [] phase = "WRITING"     -> 3
    [] OTHER                 -> 4

\* the order of the phases and the bounds of a run: the phase only moves
\* forward, from START to FETCHING, then to NORMALIZING, WRITING and SUCCESS,
\* or from FETCHING, NORMALIZING or WRITING to TOTAL_FAILURE; a finished run
\* does not change; the upload is reached with every location of the response
\* normalised and is attempted at most once; SUCCESS is a completed upload; a
\* weather_api call makes at most Retries + 1 attempts
PhasesInOrder ==
  /\ [](\A r \in Runs :
          /\ runs[r].attempts <= Retries + 1
          /\ runs[r].uploads <= 1
          /\ (runs[r].pc \in {"connect", "upload", "uploading", "uploaded"}
                \/ runs[r].uploads > 0)
               => /\ runs[r].responses # << >>
                  /\ Len(runs[r].all_data) = Len(runs[r].responses)
                  /\ runs[r].csv_data = << COLUMNS >> \o Flatten(runs[r].all_data)
          /\ runs[r].pc = "done" <=> Outcome(runs[r]) \in {"SUCCESS", "TOTAL_FAILURE"}
          /\ Outcome(runs[r]) = "SUCCESS"
               <=> (runs[r].pc = "done" /\ runs[r].err = "")
          /\ Outcome(runs[r]) = "SUCCESS"
               => runs[r].wrote = << runs[r].blob_name >>)
  /\ [][\A r \in Runs :
          LET a == PhaseRank(Phase(runs[r]))
              b == PhaseRank(Phase(runs'[r]))
          IN  /\ b = a \/ b = a + 1 \/ (a >= 1 /\ b = 4)
              /\ Phase(runs'[r]) = "SUCCESS" => a >= 3
              /\ a = 4 => runs'[r] = runs[r]]_vars

\* C10 as stated: the phases are passed in order, a weather_api call makes
\* at most Retries + 1 attempts, at most one upload is attempted, and every
\* triggered run eventually ends in SUCCESS or TOTAL_FAILURE.
C10_PhasesAndTermination ==
  /\ PhasesInOrder
  /\ \A r \in Runs : (runs[r].pc # "idle") ~> (runs[r].pc = "done")

\* C10, what the function guarantees: the phases are passed in order with
\* the bounds above, and every triggered run eventually ends in SUCCESS or
\* TOTAL_FAILURE or is waiting in FETCHING for the provider to answer; a run
\* whose request has been answered or has failed for good ends.
C10_PhasesAndTerminationIfAnswered ==
  /\ PhasesInOrder
  /\ \A r \in Runs :
       (runs[r].pc # "idle") ~> (runs[r].pc \in {"done", "request"})
  /\ \A r \in Runs :
       (runs[r].pc \in {"normalize", "connect", "upload", "uploading", "uploaded"})
         ~> (runs[r].pc = "done")

\* a run that fetched over the network has ended in SUCCESS
C10_Witness ==
  /\ Outcome(runs[1]) = "SUCCESS"
  /\ runs[1].requested
  /\ runs[1].uploads = 1

=============================================================================
